---- MODULE Spec2Model ----
(***************************************************************************)
(* Model of src/src/stocks/commands/write_stock.py: the stock write path   *)
(* over a relational store of record (table stocks, read-joined against    *)
(* products) and a Redis cache of hashes keyed stock:<product_id>.         *)
(* Callers are synchronous; each step of a caller is one statement that    *)
(* touches the store of record or the cache.                               *)
(***************************************************************************)
EXTENDS Integers, Sequences, FiniteSets, TLC

\* ---------------------------------------------------------------- bounds
NumCallers == 2
MaxPid == 2
MaxQty == 2
MaxDelta == 1
InitQty == 5
MaxItems == 2
MaxCalls == 2

Callers == 1..NumCallers
Pids == 1..MaxPid
SetQtys == 0..MaxQty
ItemQtys == 1..MaxDelta
UnitPrices == {250}
Operations == {"+", "-"}

\* ------------------------------------------------- text stored in the cache
Digits == <<"0", "1", "2", "3", "4", "5", "6", "7", "8", "9">>

RECURSIVE NatToStr(_)
NatToStr(n) ==
    IF n < 10 THEN <<Digits[n + 1]>>
    ELSE NatToStr(n \div 10) \o <<Digits[(n % 10) + 1]>>

\* str(int), the encoding redis-py gives an int field value
IntToStr(n) == IF n < 0 THEN <<"-">> \o NatToStr(-n) ELSE NatToStr(n)

DigitVal(ch) == CHOOSE d \in 0..9 : Digits[d + 1] = ch

RECURSIVE StrToNat(_)
StrToNat(s) ==
    IF Len(s) = 1 THEN DigitVal(s[1])
    ELSE 10 * StrToNat(SubSeq(s, 1, Len(s) - 1)) + DigitVal(s[Len(s)])

\* int(text)
PyInt(s) == IF s[1] = "-" THEN -StrToNat(Tail(s)) ELSE StrToNat(s)

\* float(price) followed by repr(float): prices are held in hundredths
FloatToStr(cents) ==
    LET whole == cents \div 100
        frac == cents % 100
    IN  NatToStr(whole) \o <<".">> \o
        (IF frac % 10 = 0 THEN <<Digits[(frac \div 10) + 1]>>
         ELSE <<Digits[(frac \div 10) + 1], Digits[(frac % 10) + 1]>>)

\* ------------------------------------------------------ the product catalog
ProductRow(p) ==
    [name |-> <<"P", Digits[p + 1]>>, sku |-> <<"S", Digits[p + 1]>>,
     price |-> 999 + p]

\* product 1 exists; every other product may or may not
Catalogs ==
    {[p \in ps |-> ProductRow(p)] : ps \in {qs \in SUBSET Pids : 1 \in qs}}

\* ------------------------------------------------------------- order items
\* an OrderItem object carries unit_price, a mapping taken from a request
\* carries product_id and quantity only
Items ==
    [shape : {"object"}, product_id : Pids, quantity : ItemQtys,
     unit_price : UnitPrices]
    \cup [shape : {"mapping"}, product_id : Pids, quantity : ItemQtys]

ItemSeqs == UNION {[1..n -> Items] : n \in 0..MaxItems}

HasUnitPrice(item) == "unit_price" \in DOMAIN item

\* ------------------------------------------------------------ cache (Redis)
NoEntry == <<>>

\* the entry is deleted and recreated: fields not in the mapping are lost
HSetReplace(c, p, mapping) == [c EXCEPT ![p] = mapping]

\* HSET key mapping: field-level upsert of a hash
HSet(c, p, mapping) ==
    [c EXCEPT ![p] =
        [f \in (DOMAIN c[p]) \cup (DOMAIN mapping) |->
            IF f \in DOMAIN mapping THEN mapping[f] ELSE c[p][f]]]

\* a scan that always finds a key: the cache never looks empty
ScanFindsAll(c) == Pids

\* a scan that never finds a key: the cache always looks empty
ScanFindsNone(c) == {}

\* SCAN stock:* : the keys that exist
ScanStockKeys(c) == {p \in Pids : c[p] # NoEntry}

\* a pipeline of queued HSETs, executed in order
RECURSIVE ExecPipeline(_, _)
ExecPipeline(c, queue) ==
    IF queue = <<>> THEN c
    ELSE ExecPipeline(HSet(c, queue[1].pid, queue[1].mapping), Tail(queue))

\* --------------------------------------------- store of record transactions
NoTx == [touched |-> {}, rows |-> [p \in Pids |-> <<>>]]

NoLocals ==
    [rowcount |-> 0, response_message |-> "none", payload |-> <<>>,
     product_map |-> {}, i |-> 0, pipeline |-> <<>>, stocks |-> <<>>]

NoCall == [kind |-> "none"]

VARIABLES
    stocks,     \* committed table stocks: product id -> rows (quantities)
    products,   \* table products: id -> row, read-only for this program
    cache,      \* Redis: product id -> hash of stock:<id>
    lock,       \* row locks of the store of record: product id -> holder
    pc,         \* position of each caller
    call,       \* arguments of the call each caller is in
    session,    \* "none" | "open" | "closed" per caller
    tx,         \* uncommitted writes of each caller's session
    loc,        \* local variables of the call each caller is in
    err,        \* step whose failure is propagating, or "none"
    result,     \* what the caller's last call returned, or "raised"
    ncalls,     \* number of calls begun
    hist        \* the last two calls begun, newest first

vars == <<stocks, products, cache, lock, pc, call, session, tx, loc, err,
          result, ncalls, hist>>

dbVars == <<stocks, lock, tx>>
ctlVars == <<call, ncalls, result, hist>>

\* rows of product p as caller c's session sees them for a write
VisibleRows(c, p) ==
    IF p \in tx[c].touched THEN tx[c].rows[p] ELSE stocks[p]

\* no row locking: a write never waits
NeverWaits(c, p) == TRUE

\* a statement that writes rows of p waits for another session's lock
CanLock(c, p) == lock[p] \in {0, c}

\* stage new rows for p in c's transaction
Stage(c, p, rows) ==
    [touched |-> tx[c].touched \cup {p},
     rows |-> [tx[c].rows EXCEPT ![p] = rows]]

\* a flush in place of the commit: nothing becomes committed
CommitNothing(c) == stocks

\* session.commit(): the staged rows become the committed rows
CommitStocks(c) ==
    [p \in Pids |-> IF p \in tx[c].touched THEN tx[c].rows[p] ELSE stocks[p]]

\* a rollback that lets the staged rows through
RollbackKeepsStaged(c) ==
    [p \in Pids |-> IF p \in tx[c].touched THEN tx[c].rows[p] ELSE stocks[p]]

\* a compensating rollback: the rows of the caller's product are put back as
\* they were when the call began
RollbackCompensates(c) ==
    [p \in Pids |->
        IF call[c].kind = "set" /\ p = call[c].product_id
        THEN hist[1].pre.stocks[p] ELSE stocks[p]]

\* session.rollback(): staged rows are dropped, committed rows stay
RollbackStocks(c) == stocks

ReleaseLocks(c) == [p \in Pids |-> IF lock[p] = c THEN 0 ELSE lock[p]]

Init ==
    /\ stocks \in [Pids -> {<<>>} \cup {<<InitQty>>}]
    /\ products \in Catalogs
    /\ cache = [p \in Pids |-> NoEntry]
    /\ lock = [p \in Pids |-> 0]
    /\ pc = [c \in Callers |-> "idle"]
    /\ call = [c \in Callers |-> NoCall]
    /\ session = [c \in Callers |-> "none"]
    /\ tx = [c \in Callers |-> NoTx]
    /\ loc = [c \in Callers |-> NoLocals]
    /\ err = [c \in Callers |-> "none"]
    /\ result = [c \in Callers |-> "none"]
    /\ ncalls = 0
    /\ hist = <<>>

\* ------------------------------------------------------------ call history
\* what is kept of a call: its arguments (the item sequence only when it has
\* one item), the committed rows and the cache when it began, how it ended
Summary(c, args) ==
    [caller |-> c,
     kind |-> args.kind,
     operation |-> IF args.kind = "set" THEN "=" ELSE args.operation,
     product_id |-> IF args.kind = "set" THEN args.product_id ELSE 0,
     quantity |-> IF args.kind = "set" THEN args.quantity ELSE 0,
     n |-> IF args.kind = "set" THEN 0 ELSE Len(args.order_items),
     items |-> IF args.kind # "set" /\ Len(args.order_items) = 1
               THEN args.order_items ELSE <<>>,
     pre |-> [stocks |-> stocks, cache |-> cache],
     outcome |-> "running",
     failed |-> "none"]

Record(c, args) ==
    <<Summary(c, args)>> \o (IF hist = <<>> THEN <<>> ELSE <<hist[1]>>)

Finish(c, outcome) ==
    [k \in DOMAIN hist |->
        IF hist[k].caller = c /\ hist[k].outcome = "running"
        THEN [hist[k] EXCEPT !.outcome = outcome, !.failed = err[c]]
        ELSE hist[k]]

Begin(c, args, at) ==
    /\ pc[c] = "idle"
    /\ ncalls < MaxCalls
    /\ ncalls' = ncalls + 1
    /\ call' = [call EXCEPT ![c] = args]
    /\ pc' = [pc EXCEPT ![c] = at]
    /\ err' = [err EXCEPT ![c] = "none"]
    /\ result' = [result EXCEPT ![c] = "none"]
    /\ loc' = [loc EXCEPT ![c] = NoLocals]
    /\ hist' = Record(c, args)

\* the call ends: its locals go out of scope
End(c, outcome, value) ==
    /\ pc' = [pc EXCEPT ![c] = "idle"]
    /\ call' = [call EXCEPT ![c] = NoCall]
    /\ loc' = [loc EXCEPT ![c] = NoLocals]
    /\ result' = [result EXCEPT ![c] = value]
    /\ err' = [err EXCEPT ![c] = "none"]
    /\ hist' = Finish(c, outcome)
    /\ UNCHANGED ncalls

Goto(c, at) == pc' = [pc EXCEPT ![c] = at]

\* a statement raises: the exception starts to propagate
Raise(c, handler) ==
    /\ err' = [err EXCEPT ![c] = pc[c]]
    /\ Goto(c, handler)

\* ------------------------------------------------- set_stock_for_product
\* lines 23-24: result.rowcount. SQLAlchemy's MySQL dialects connect with
\* FOUND_ROWS, so it counts the rows matched, changed or not.
\* the driver's own count: the rows the UPDATE changed
ChangedRowcount(rows, qty) == Cardinality({k \in DOMAIN rows : rows[k] # qty})

UpdateRowcount(rows, qty) == Len(rows)

\* line 13
SetStockBegin(c) ==
    /\ \E p \in Pids, q \in SetQtys :
          Begin(c, [kind |-> "set", product_id |-> p, quantity |-> q],
                "ssp_update")
    /\ session' = [session EXCEPT ![c] = "open"]
    /\ tx' = [tx EXCEPT ![c] = NoTx]
    /\ UNCHANGED <<stocks, products, cache, lock>>

\* lines 15-24: UPDATE stocks SET quantity = :qty WHERE product_id = :pid
SetStockUpdate(c) ==
    /\ pc[c] = "ssp_update"
    /\ LET p == call[c].product_id
           rows == VisibleRows(c, p)
       IN  /\ CanLock(c, p)
           /\ loc' = [loc EXCEPT
                 ![c].rowcount = UpdateRowcount(rows, call[c].quantity),
                 ![c].response_message = "rows updated"]
           /\ IF rows = <<>>
              THEN UNCHANGED <<tx, lock>>
              ELSE /\ tx' = [tx EXCEPT ![c] =
                         Stage(c, p, [k \in DOMAIN rows |-> call[c].quantity])]
                   /\ lock' = [lock EXCEPT ![p] = c]
           /\ IF UpdateRowcount(rows, call[c].quantity) = 0
              THEN Goto(c, "ssp_insert")
              ELSE Goto(c, "ssp_commit")
    /\ UNCHANGED <<stocks, products, cache, session, err, ctlVars>>

\* an insert that overwrites on a key conflict
InsertedOnConflict(rows, qty) ==
    IF rows = <<>> THEN <<qty>> ELSE [k \in DOMAIN rows |-> qty]

\* lines 25-27: the new Stock row joins the rows of its product id
Inserted(rows, qty) == Append(rows, qty)

\* lines 25-28: session.add(Stock(...)); session.flush()
SetStockInsert(c) ==
    /\ pc[c] = "ssp_insert"
    /\ LET p == call[c].product_id
       IN  /\ CanLock(c, p)
           /\ tx' = [tx EXCEPT ![c] =
                 Stage(c, p, Inserted(VisibleRows(c, p), call[c].quantity))]
           /\ lock' = [lock EXCEPT ![p] = c]
    /\ loc' = [loc EXCEPT ![c].response_message = "rows added"]
    /\ Goto(c, "ssp_commit")
    /\ UNCHANGED <<stocks, products, cache, session, err, ctlVars>>

\* line 29: session.commit()
SetStockCommit(c) ==
    /\ pc[c] = "ssp_commit"
    /\ stocks' = CommitStocks(c)
    /\ tx' = [tx EXCEPT ![c] = NoTx]
    /\ lock' = ReleaseLocks(c)
    /\ Goto(c, "ssp_query")
    /\ UNCHANGED <<products, cache, session, loc, err, ctlVars>>

\* the fields a cache entry gets from a product row
Enrichment(p) ==
    [f \in {"name", "sku", "price"} |->
        CASE f = "name" -> products[p].name
          [] f = "sku" -> products[p].sku
          [] f = "price" -> FloatToStr(products[p].price)]

\* dict.update / a new key: the right-hand fields win
Updated(mapping, more) ==
    [f \in (DOMAIN mapping) \cup (DOMAIN more) |->
        IF f \in DOMAIN more THEN more[f] ELSE mapping[f]]

\* a payload that defaults the fields of a missing product to empty text
SetStockPayloadDefaults(p, q) ==
    LET base == [f \in {"quantity"} |-> IntToStr(q)]
    IN  IF p \in DOMAIN products THEN Updated(base, Enrichment(p))
        ELSE Updated(base, [f \in {"name", "sku"} |-> <<>>])

\* a payload built with "if quantity:" loses a quantity of 0
SetStockPayloadFalsy(p, q) ==
    LET base == IF q = 0 THEN <<>> ELSE [f \in {"quantity"} |-> IntToStr(q)]
    IN  IF p \in DOMAIN products THEN Updated(base, Enrichment(p)) ELSE base

\* lines 31-38: product lookup and redis_payload
SetStockPayload(p, q) ==
    LET base == [f \in {"quantity"} |-> IntToStr(q)]
    IN  IF p \in DOMAIN products THEN Updated(base, Enrichment(p)) ELSE base

SetStockQuery(c) ==
    /\ pc[c] = "ssp_query"
    /\ loc' = [loc EXCEPT ![c].payload =
          SetStockPayload(call[c].product_id, call[c].quantity)]
    /\ Goto(c, "ssp_hset")
    /\ UNCHANGED <<dbVars, products, cache, session, err, ctlVars>>

\* lines 40-42: r.hset(f"stock:{product_id}", mapping=redis_payload); return
SetStockHset(c) ==
    /\ pc[c] = "ssp_hset"
    /\ cache' = HSet(cache, call[c].product_id, loc[c].payload)
    /\ Goto(c, "ssp_finally")
    /\ UNCHANGED <<dbVars, products, session, loc, err, ctlVars>>

\* a statement of the try block (lines 15-41) raises
SetStockFallible == {"ssp_update", "ssp_insert", "ssp_commit", "ssp_query",
                     "ssp_hset"}

SetStockRaise(c) ==
    /\ pc[c] \in SetStockFallible
    /\ Raise(c, "ssp_except")
    /\ UNCHANGED <<dbVars, products, cache, session, loc, ctlVars>>

\* lines 43-45: session.rollback(); raise e
SetStockExcept(c) ==
    /\ pc[c] = "ssp_except"
    /\ stocks' = RollbackStocks(c)
    /\ tx' = [tx EXCEPT ![c] = NoTx]
    /\ lock' = ReleaseLocks(c)
    /\ Goto(c, "ssp_finally")
    /\ UNCHANGED <<products, cache, session, loc, err, ctlVars>>

\* lines 46-47: session.close(), then the return or the raise takes effect
SetStockFinally(c) ==
    /\ pc[c] = "ssp_finally"
    /\ session' = [session EXCEPT ![c] = "closed"]
    /\ IF err[c] = "none"
       THEN End(c, "returned", loc[c].response_message)
       ELSE End(c, "raised", "raised")
    /\ UNCHANGED <<dbVars, products, cache>>

SetStock(c) ==
    \/ SetStockUpdate(c) \/ SetStockInsert(c)
    \/ SetStockCommit(c) \/ SetStockQuery(c) \/ SetStockHset(c)
    \/ SetStockRaise(c) \/ SetStockExcept(c) \/ SetStockFinally(c)

\* ------------------------------------------------------ update_stock_mysql
\* lines 53-58: the shape test looks at order_items[0], the access at item
UsmReadable(order_items, item) == item.shape = order_items[1].shape

\* the operation symbol is ignored: every adjustment adds
AdjustedAdds(q, operation, qty) == q + qty

Adjusted(q, operation, qty) == IF operation = "+" THEN q + qty ELSE q - qty

\* line 49, entered by check_in_items_to_stock / check_out_items_from_stock
\* (lines 70-76) with the caller's session
MysqlBegin(c) ==
    /\ \E items \in ItemSeqs, operation \in Operations :
          Begin(c, [kind |-> "mysql", order_items |-> items,
                    operation |-> operation], "usm_item")
    /\ session' = [session EXCEPT ![c] = "open"]
    /\ tx' = [tx EXCEPT ![c] = NoTx]
    /\ UNCHANGED <<stocks, products, cache, lock>>

\* lines 52-66: one item of the loop,
\* UPDATE stocks SET quantity = quantity {operation} :qty WHERE product_id = :pid
MysqlItem(c) ==
    /\ pc[c] = "usm_item"
    /\ loc[c].i < Len(call[c].order_items)
    /\ LET item == call[c].order_items[loc[c].i + 1]
           p == item.product_id
           rows == VisibleRows(c, p)
       IN  IF ~UsmReadable(call[c].order_items, item)
           THEN /\ err' = [err EXCEPT ![c] = "usm_access"]
                /\ Goto(c, "caller_failed")
                /\ UNCHANGED <<tx, lock, loc>>
           ELSE /\ CanLock(c, p)
                /\ loc' = [loc EXCEPT ![c].i = @ + 1,
                                      ![c].rowcount = Len(rows)]
                /\ IF rows = <<>>
                   THEN UNCHANGED <<tx, lock>>
                   ELSE /\ tx' = [tx EXCEPT ![c] = Stage(c, p,
                              [k \in DOMAIN rows |->
                                 Adjusted(rows[k], call[c].operation,
                                          item.quantity)])]
                        /\ lock' = [lock EXCEPT ![p] = c]
                /\ UNCHANGED <<pc, err>>
    /\ UNCHANGED <<stocks, products, cache, session, ctlVars>>

\* lines 59-68: session.execute raises; the exception reaches the caller
MysqlRaise(c) ==
    /\ pc[c] = "usm_item"
    /\ loc[c].i < Len(call[c].order_items)
    /\ Raise(c, "caller_failed")
    /\ UNCHANGED <<dbVars, products, cache, session, loc, ctlVars>>

\* the loop is over: update_stock_mysql returns to the caller
MysqlReturn(c) ==
    /\ pc[c] = "usm_item"
    /\ loc[c].i = Len(call[c].order_items)
    /\ Goto(c, "caller_tx")
    /\ UNCHANGED <<dbVars, products, cache, session, loc, err, ctlVars>>

\* the caller owns the transaction boundary: it commits ...
CallerCommit(c) ==
    /\ pc[c] = "caller_tx"
    /\ stocks' = CommitStocks(c)
    /\ tx' = [tx EXCEPT ![c] = NoTx]
    /\ lock' = ReleaseLocks(c)
    /\ session' = [session EXCEPT ![c] = "closed"]
    /\ End(c, "committed", "committed")
    /\ UNCHANGED <<products, cache>>

\* ... or rolls back, as it does when update_stock_mysql raised
CallerRollback(c) ==
    /\ pc[c] \in {"caller_tx", "caller_failed"}
    /\ stocks' = RollbackStocks(c)
    /\ tx' = [tx EXCEPT ![c] = NoTx]
    /\ lock' = ReleaseLocks(c)
    /\ session' = [session EXCEPT ![c] = "closed"]
    /\ IF pc[c] = "caller_failed"
       THEN End(c, "raised", "raised")
       ELSE End(c, "rolledback", "rolledback")
    /\ UNCHANGED <<products, cache>>

Mysql(c) ==
    \/ MysqlItem(c) \/ MysqlRaise(c) \/ MysqlReturn(c)
    \/ CallerCommit(c) \/ CallerRollback(c)

\* ------------------------------------------------------ update_stock_redis
\* lines 88-97: (product_id, quantity, unit_price); a missing unit_price is None
Normalized(item) ==
    IF HasUnitPrice(item)
    THEN [product_id |-> item.product_id, quantity |-> item.quantity,
          unit_price |-> item.unit_price]
    ELSE [product_id |-> item.product_id, quantity |-> item.quantity]

\* lines 111-112: hget, then int(current_stock) if current_stock else 0
CurrentStock(c, p) ==
    IF "quantity" \in DOMAIN c[p] /\ c[p]["quantity"] # <<>>
    THEN PyInt(c[p]["quantity"]) ELSE 0

\* lines 119-128: the mapping written for one normalized item
ItemMapping(current_stock, operation, nitem, pmap) ==
    LET base == [f \in {"quantity"} |->
                    IntToStr(Adjusted(current_stock, operation, nitem.quantity))]
    IN  IF nitem.product_id \in pmap
        THEN Updated(base, Enrichment(nitem.product_id))
        ELSE IF HasUnitPrice(nitem)
             THEN Updated(base, [f \in {"price"} |-> FloatToStr(nitem.unit_price)])
             ELSE base

\* the test is lost: no input counts as empty
NeverEmptyInput(order_items) == FALSE

\* line 80: not order_items
IsEmptyInput(order_items) == order_items = <<>>

\* line 78
RedisBegin(c) ==
    /\ \E items \in ItemSeqs, operation \in Operations :
          Begin(c, [kind |-> "redis", order_items |-> items,
                    operation |-> operation], "usr_check")
    /\ UNCHANGED <<dbVars, products, cache, session>>

\* lines 80-81: if not order_items: return
RedisEmpty(c) ==
    /\ pc[c] = "usr_check"
    /\ IsEmptyInput(call[c].order_items)
    /\ End(c, "returned", "None")
    /\ UNCHANGED <<dbVars, products, cache, session>>

\* lines 82-84: scan_iter("stock:*"); an empty scan calls the rehydration,
\* which opens its session (line 138)
RedisScan(c) ==
    /\ pc[c] = "usr_check"
    /\ ~IsEmptyInput(call[c].order_items)
    /\ IF ScanStockKeys(cache) = {}
       THEN /\ session' = [session EXCEPT ![c] = "open"]
            /\ Goto(c, "pop_select")
       ELSE /\ Goto(c, "usr_query")
            /\ UNCHANGED session
    /\ UNCHANGED <<dbVars, products, cache, loc, err, ctlVars>>

\* lines 140-146: SELECT ... FROM stocks s JOIN products p ON s.product_id = p.id
RECURSIVE JoinRows(_, _)
JoinRows(st, p) ==
    IF p > MaxPid THEN <<>>
    ELSE (IF p \in DOMAIN products
          THEN [k \in DOMAIN st[p] |->
                  [product_id |-> p, quantity |-> st[p][k],
                   name |-> products[p].name, sku |-> products[p].sku,
                   price |-> products[p].price]]
          ELSE <<>>) \o JoinRows(st, p + 1)

\* the price column is left out of the mapping
PopulateQueueNoPrice(rows) ==
    [k \in DOMAIN rows |->
        [pid |-> rows[k].product_id,
         mapping |-> [f \in {"quantity", "name", "sku"} |->
            CASE f = "quantity" -> IntToStr(rows[k].quantity)
              [] f = "name" -> rows[k].name
              [] f = "sku" -> rows[k].sku]]]

\* lines 154-163: one queued hset per fetched row
PopulateQueue(rows) ==
    [k \in DOMAIN rows |->
        [pid |-> rows[k].product_id,
         mapping |-> [f \in {"quantity", "name", "sku", "price"} |->
            CASE f = "quantity" -> IntToStr(rows[k].quantity)
              [] f = "name" -> rows[k].name
              [] f = "sku" -> rows[k].sku
              [] f = "price" -> FloatToStr(rows[k].price)]]]

\* lines 140-150
PopulateSelect(c) ==
    /\ pc[c] = "pop_select"
    /\ loc' = [loc EXCEPT ![c].stocks = JoinRows(stocks, 1)]
    /\ IF JoinRows(stocks, 1) = <<>>
       THEN Goto(c, "pop_finally")
       ELSE Goto(c, "pop_execute")
    /\ UNCHANGED <<dbVars, products, cache, session, err, ctlVars>>

\* lines 152-166
PopulateExecute(c) ==
    /\ pc[c] = "pop_execute"
    /\ cache' = ExecPipeline(cache, PopulateQueue(loc[c].stocks))
    /\ Goto(c, "pop_finally")
    /\ UNCHANGED <<dbVars, products, session, loc, err, ctlVars>>

\* lines 168-170: the fetch or the pipeline raises
PopulateRaise(c) ==
    /\ pc[c] \in {"pop_select", "pop_execute"}
    /\ Raise(c, "pop_finally")
    /\ UNCHANGED <<dbVars, products, cache, session, loc, ctlVars>>

\* lines 171-172: session.close(); a raise leaves update_stock_redis at line 84
PopulateFinally(c) ==
    /\ pc[c] = "pop_finally"
    /\ session' = [session EXCEPT ![c] = "closed"]
    /\ IF err[c] = "none"
       THEN /\ Goto(c, "usr_query")
            /\ loc' = [loc EXCEPT ![c].stocks = <<>>]
            /\ UNCHANGED <<err, ctlVars>>
       ELSE End(c, "raised", "raised")
    /\ UNCHANGED <<dbVars, products, cache>>

\* lines 86-107: normalize, open the session, fetch the products
RedisQuery(c) ==
    /\ pc[c] = "usr_query"
    /\ session' = [session EXCEPT ![c] = "open"]
    /\ loc' = [loc EXCEPT ![c].product_map =
          {call[c].order_items[k].product_id :
              k \in DOMAIN call[c].order_items} \cap DOMAIN products]
    /\ Goto(c, "usr_item")
    /\ UNCHANGED <<dbVars, products, cache, err, ctlVars>>

\* no pipeline: each item's hset reaches the cache before the next hget
RedisItemFlushed(c) ==
    /\ pc[c] = "usr_item"
    /\ loc[c].i < Len(call[c].order_items)
    /\ LET nitem == Normalized(call[c].order_items[loc[c].i + 1])
           current_stock == CurrentStock(cache, nitem.product_id)
           queued == [pid |-> nitem.product_id,
                      mapping |-> ItemMapping(current_stock, call[c].operation,
                                              nitem, loc[c].product_map)]
       IN  /\ loc' = [loc EXCEPT ![c].i = @ + 1,
                                 ![c].pipeline = Append(@, queued)]
           /\ cache' = ExecPipeline(cache, <<queued>>)
    /\ UNCHANGED <<dbVars, products, pc, session, err, ctlVars>>

\* lines 110-130: one item of the loop: hget, compute, queue the hset
RedisItem(c) ==
    /\ pc[c] = "usr_item"
    /\ loc[c].i < Len(call[c].order_items)
    /\ LET nitem == Normalized(call[c].order_items[loc[c].i + 1])
           current_stock == CurrentStock(cache, nitem.product_id)
       IN  loc' = [loc EXCEPT
              ![c].i = @ + 1,
              ![c].pipeline = Append(@,
                  [pid |-> nitem.product_id,
                   mapping |-> ItemMapping(current_stock, call[c].operation,
                                           nitem, loc[c].product_map)])]
    /\ UNCHANGED <<dbVars, products, cache, pc, session, err, ctlVars>>

\* line 132: pipeline.execute()
RedisExecute(c) ==
    /\ pc[c] = "usr_item"
    /\ loc[c].i = Len(call[c].order_items)
    /\ cache' = ExecPipeline(cache, loc[c].pipeline)
    /\ Goto(c, "usr_finally")
    /\ UNCHANGED <<dbVars, products, session, loc, err, ctlVars>>

\* a statement of the try block (lines 102-132) raises
RedisRaise(c) ==
    /\ pc[c] \in {"usr_query", "usr_item"}
    /\ Raise(c, "usr_finally")
    /\ session' = [session EXCEPT ![c] = "open"]
    /\ UNCHANGED <<dbVars, products, cache, loc, ctlVars>>

\* the close at the end of the try block: an exception skips it
RedisCloseOnReturn(c) ==
    /\ pc[c] = "usr_finally"
    /\ session' = [session EXCEPT ![c] =
                      IF err[c] = "none" THEN "closed" ELSE "open"]
    /\ IF err[c] = "none"
       THEN End(c, "returned", "None")
       ELSE End(c, "raised", "raised")
    /\ UNCHANGED <<dbVars, products, cache>>

\* lines 133-134: session.close()
RedisFinally(c) ==
    /\ pc[c] = "usr_finally"
    /\ session' = [session EXCEPT ![c] = "closed"]
    /\ IF err[c] = "none"
       THEN End(c, "returned", "None")
       ELSE End(c, "raised", "raised")
    /\ UNCHANGED <<dbVars, products, cache>>

Redis(c) ==
    \/ RedisEmpty(c) \/ RedisScan(c) \/ PopulateSelect(c)
    \/ PopulateExecute(c) \/ PopulateRaise(c) \/ PopulateFinally(c)
    \/ RedisQuery(c) \/ RedisItem(c) \/ RedisExecute(c) \/ RedisRaise(c)
    \/ RedisFinally(c)

\* ------------------------------------------------------------ specifications
AllIdle == \A c \in Callers : pc[c] = "idle"

\* callers overlap freely
Next ==
    \E c \in Callers :
        \/ SetStockBegin(c) \/ MysqlBegin(c) \/ RedisBegin(c)
        \/ SetStock(c) \/ Mysql(c) \/ Redis(c)

Spec == Init /\ [][Next]_vars

\* isolated, non-overlapping calls: one call at a time. A caller keeps nothing
\* from one call to the next, so the calls are all made by the first caller.
NextIsolated ==
    LET c == 1 IN
        \/ SetStockBegin(c) \/ MysqlBegin(c) \/ RedisBegin(c)
        \/ SetStock(c) \/ Mysql(c) \/ Redis(c)

SpecIsolated == Init /\ [][NextIsolated]_vars

\* concurrent callers of set_stock_for_product only
NextSetStock == \E c \in Callers : SetStockBegin(c) \/ SetStock(c)

SpecSetStock == Init /\ [][NextSetStock]_vars

\* concurrent callers of update_stock_mysql only, each in its own transaction
NextMysql == \E c \in Callers : MysqlBegin(c) \/ Mysql(c)

SpecMysql == Init /\ [][NextMysql]_vars

\* concurrent callers of update_stock_redis only, with at most one item a call
NextRedis ==
    \E c \in Callers :
        \/ RedisBegin(c) /\ Len(call'[c].order_items) <= 1
        \/ Redis(c)

SpecRedis == Init /\ [][NextRedis]_vars

\* ------------------------------------------------------------------ claims
\* the call that ended last, when no call is running
Ended == AllIdle /\ hist # <<>>
Last == hist[1]

\* Last was set_stock_for_product(product_id, quantity) and it returned
SetReturned == Ended /\ Last.kind = "set" /\ Last.outcome = "returned"

HadNoRecord == Last.pre.stocks[Last.product_id] = <<>>

\* C1: after an isolated set_stock_for_product(p, q) that returned, for a p that
\* had no StockRecord, the store holds a record for p with quantity q and the
\* cache entry stock:<p> has a quantity field that reads q.
C1_NewRecordWritten ==
    (SetReturned /\ HadNoRecord) =>
        /\ stocks[Last.product_id] = <<Last.quantity>>
        /\ "quantity" \in DOMAIN cache[Last.product_id]
        /\ PyInt(cache[Last.product_id]["quantity"]) = Last.quantity

C1_Witness == SetReturned /\ HadNoRecord /\ Last.quantity = 0

\* C2: after an isolated set_stock_for_product(p, q) that returned, for a p that
\* had a StockRecord, exactly one record exists for p and its quantity is q,
\* also when q is the quantity it already had.
C2_RecordOverwritten ==
    (SetReturned /\ ~HadNoRecord) =>
        /\ Len(stocks[Last.product_id]) = 1
        /\ stocks[Last.product_id][1] = Last.quantity

C2_Witness ==
    SetReturned /\ Last.pre.stocks[Last.product_id] = <<Last.quantity>>

\* the quantity a cache entry reads as; a missing entry reads as 0
QuantityRead(entry) ==
    IF "quantity" \in DOMAIN entry THEN PyInt(entry["quantity"]) ELSE 0

\* the last two calls: the same single item, opposite operations, same function
Pair ==
    /\ AllIdle /\ Len(hist) = 2
    /\ hist[1].kind = hist[2].kind
    /\ hist[1].n = 1 /\ hist[2].n = 1
    /\ hist[1].items = hist[2].items
    /\ hist[1].operation # hist[2].operation

StorePair ==
    Pair /\ hist[1].kind = "mysql"
         /\ hist[1].outcome = "committed" /\ hist[2].outcome = "committed"

CachePair ==
    Pair /\ hist[1].kind = "redis"
         /\ hist[1].outcome = "returned" /\ hist[2].outcome = "returned"

PairPid == hist[1].items[1].product_id
BeforePair == hist[2].pre

ColdBeforePair == \A p \in Pids : BeforePair.cache[p] = NoEntry

PairBase ==
    IF ColdBeforePair
    THEN IF PairPid \in DOMAIN products /\ BeforePair.stocks[PairPid] # <<>>
         THEN BeforePair.stocks[PairPid][1] ELSE 0
    ELSE QuantityRead(BeforePair.cache[PairPid])

JoinedEntry(p) ==
    [f \in {"quantity", "name", "sku", "price"} |->
        CASE f = "quantity" -> IntToStr(stocks[p][1])
          [] f = "name" -> products[p].name
          [] f = "sku" -> products[p].sku
          [] f = "price" -> FloatToStr(products[p].price)]

Rehydrated(c) == pc[c] = "pop_finally" /\ err[c] = "none"

\* C4: when _populate_redis_from_mysql has run, the cache holds one entry per
\* StockRecord that has a matching product, with exactly the fields quantity,
\* name, sku, price of the joined row, and no entry for any other product id;
\* with no stock row it has written nothing.
C4_RehydrationWritesJoinedRows ==
    \A c \in Callers :
        Rehydrated(c) =>
            \A p \in Pids :
                cache[p] = IF stocks[p] # <<>> /\ p \in DOMAIN products
                           THEN JoinedEntry(p) ELSE NoEntry

C4_Witness ==
    \E c \in Callers :
        /\ Rehydrated(c)
        /\ \E p \in Pids : cache[p] # NoEntry
        /\ \E p \in Pids : stocks[p] # <<>> /\ p \notin DOMAIN products

\* update_stock_redis has executed its pipeline and is about to return
Adjusted1(c) ==
    pc[c] = "usr_finally" /\ err[c] = "none" /\ hist[1].caller = c

Unknown(c) ==
    {call[c].order_items[k].product_id : k \in DOMAIN call[c].order_items}
        \ DOMAIN products

\* C5 as stated, for a call with one item: for an item whose product has no
\* ProductSnapshot the resulting entry has no name and no sku, its price is the
\* item's unit_price if one was supplied and is absent otherwise.
C5_NoSnapshotEntry ==
    \A c \in Callers :
        (Adjusted1(c) /\ Len(call[c].order_items) = 1) =>
            \A p \in Unknown(c) :
                LET item == call[c].order_items[1]
                IN  /\ "name" \notin DOMAIN cache[p]
                    /\ "sku" \notin DOMAIN cache[p]
                    /\ IF "unit_price" \in DOMAIN item
                       THEN /\ "price" \in DOMAIN cache[p]
                            /\ cache[p]["price"] = FloatToStr(item.unit_price)
                       ELSE "price" \notin DOMAIN cache[p]

\* field f of entry now is as it was in entry before
Kept(f, now, before) ==
    /\ (f \in DOMAIN now) = (f \in DOMAIN before)
    /\ f \in DOMAIN now => now[f] = before[f]

\* the items of the call for product p that carry a unit_price
Priced(c, p) ==
    {k \in DOMAIN call[c].order_items :
        /\ call[c].order_items[k].product_id = p
        /\ "unit_price" \in DOMAIN call[c].order_items[k]}

Latest(ks) == CHOOSE k \in ks : \A j \in ks : j <= k

\* C5 amended: for a product without ProductSnapshot the call writes no name
\* and no sku, and writes price only from a supplied unit_price: name and sku
\* are as the entry held them before the call, price is the unit_price last
\* supplied for the product, and is as before the call if none was supplied.
C5_NoSnapshotFieldsKept ==
    \A c \in Callers :
        Adjusted1(c) =>
            \A p \in Unknown(c) :
                LET before == hist[1].pre.cache[p]
                IN  /\ "quantity" \in DOMAIN cache[p]
                    /\ Kept("name", cache[p], before)
                    /\ Kept("sku", cache[p], before)
                    /\ IF Priced(c, p) # {}
                       THEN /\ "price" \in DOMAIN cache[p]
                            /\ cache[p]["price"] = FloatToStr(
                                 call[c].order_items[Latest(Priced(c, p))].unit_price)
                       ELSE Kept("price", cache[p], before)

C5_Witness ==
    \E c \in Callers :
        /\ Adjusted1(c) /\ Len(call[c].order_items) = 1
        /\ "unit_price" \notin DOMAIN call[c].order_items[1]
        /\ \E p \in Unknown(c) : "price" \in DOMAIN hist[1].pre.cache[p]

\* Last was update_stock_redis with one item and it returned
AdjustReturned ==
    Ended /\ Last.kind = "redis" /\ Last.outcome = "returned" /\ Last.n = 1

ColdBefore == \A p \in Pids : Last.pre.cache[p] = NoEntry

\* C6: with an empty cache and a StockRecord of quantity q for an existing
\* product, update_stock_redis with one item (that product, d) rehydrates and
\* then adjusts: the cache quantity ends as q + d for "+", q - d for "-", and
\* the entry carries the product's name, sku and price.
C6_AdjustsFromRehydrated ==
    LET p == Last.items[1].product_id
        d == Last.items[1].quantity
        q == Last.pre.stocks[p][1]
    IN  (AdjustReturned /\ ColdBefore /\ Last.pre.stocks[p] # <<>>
            /\ p \in DOMAIN products) =>
            /\ DOMAIN cache[p] = {"quantity", "name", "sku", "price"}
            /\ PyInt(cache[p]["quantity"]) =
                  (IF Last.operation = "+" THEN q + d ELSE q - d)
            /\ cache[p]["name"] = products[p].name
            /\ cache[p]["sku"] = products[p].sku

C6_Witness ==
    /\ AdjustReturned /\ ColdBefore /\ Last.operation = "+"
    /\ Last.pre.stocks[Last.items[1].product_id] # <<>>
    /\ Last.items[1].product_id \in DOMAIN products

NoProduct == Last.product_id \notin DOMAIN products

\* C7 as stated: set_stock_for_product for an id with no StockRecord and no
\* product returns the "rows added" status and leaves a cache entry holding
\* the quantity field only.
C7_OnlyQuantity ==
    (SetReturned /\ HadNoRecord /\ NoProduct) =>
        /\ result[Last.caller] = "rows added"
        /\ cache[Last.product_id] =
              [f \in {"quantity"} |-> IntToStr(Last.quantity)]

\* C7 amended: the status is "rows added" and the call writes the quantity
\* field only: every other field of the entry is as it was before the call, so
\* the entry holds only quantity when there was no entry before.
C7_WritesOnlyQuantity ==
    (SetReturned /\ HadNoRecord /\ NoProduct) =>
        LET now == cache[Last.product_id]
            before == Last.pre.cache[Last.product_id]
        IN  /\ result[Last.caller] = "rows added"
            /\ "quantity" \in DOMAIN now
            /\ now["quantity"] = IntToStr(Last.quantity)
            /\ \A f \in {"name", "sku", "price"} : Kept(f, now, before)

C7_Witness ==
    /\ SetReturned /\ HadNoRecord /\ NoProduct
    /\ "price" \in DOMAIN Last.pre.cache[Last.product_id]

\* C8: whenever set_stock_for_product writes the cache, its store-of-record
\* write is committed: the session holds no uncommitted row, no failure is
\* propagating (nothing was rolled back) and the committed table has the
\* product's record.
C8_CacheAfterCommit ==
    [][\A c \in Callers :
          (pc[c] = "ssp_hset" /\ pc'[c] = "ssp_finally") =>
              /\ tx[c].touched = {}
              /\ err[c] = "none"
              /\ stocks[call[c].product_id] # <<>>]_vars

C8_Witness ==
    \E c \in Callers :
        /\ pc[c] = "ssp_finally" /\ err[c] = "none"
        /\ PyInt(cache[call[c].product_id]["quantity"]) = call[c].quantity
        /\ \E o \in Callers \ {c} :
              /\ pc[o] = "ssp_commit"
              /\ call[o].product_id = call[c].product_id

SetFailedAt(steps) == Ended /\ Last.kind = "set" /\ Last.failed \in steps

\* C9: when the update, the insert/flush or the commit of an isolated
\* set_stock_for_product raises, the call raises, the StockRecords are as
\* before the call and the cache is unchanged.
C9_StoreFailureRollsBack ==
    SetFailedAt({"ssp_update", "ssp_insert", "ssp_commit"}) =>
        /\ Last.outcome = "raised"
        /\ result[Last.caller] = "raised"
        /\ stocks = Last.pre.stocks
        /\ cache = Last.pre.cache

C9_Witness ==
    /\ SetFailedAt({"ssp_commit"})
    /\ Last.pre.stocks[Last.product_id] # <<Last.quantity>>

\* C10: when the cache write of an isolated set_stock_for_product raises after
\* the commit, the call raises and the StockRecord keeps the new quantity.
C10_CacheFailureKeepsCommit ==
    SetFailedAt({"ssp_hset"}) =>
        /\ Last.outcome = "raised"
        /\ result[Last.caller] = "raised"
        /\ stocks[Last.product_id] = <<Last.quantity>>

C10_Witness ==
    /\ SetFailedAt({"ssp_hset"})
    /\ Last.pre.stocks[Last.product_id] # <<Last.quantity>>

Signed(operation, qty) == IF operation = "+" THEN qty ELSE -qty

\* the signed sum of the quantities that items[1..n] carry for product p
RECURSIVE SignedSum(_, _, _, _)
SignedSum(items, operation, p, n) ==
    IF n = 0 THEN 0
    ELSE SignedSum(items, operation, p, n - 1)
         + (IF items[n].product_id = p
            THEN Signed(operation, items[n].quantity) ELSE 0)

\* both of the last two calls were single-item calls of this kind and ended so
BothEnded(kind, outcome) ==
    /\ AllIdle /\ Len(hist) = 2
    /\ \A k \in 1..2 : /\ hist[k].kind = kind /\ hist[k].n = 1
                        /\ hist[k].outcome = outcome

\* what the single item of call h adds to product p
Share(h, p) ==
    IF h.items[1].product_id = p
    THEN Signed(h.operation, h.items[1].quantity) ELSE 0

\* C11: every commit of an update_stock_mysql transaction moves each
\* StockRecord by exactly the signed sum of the call's items for its product,
\* whatever other callers do meanwhile; so once two overlapping calls have both
\* committed each record is at its initial quantity plus the sum of both.
C11_NoLostStoreUpdate ==
    /\ [][\A c \in Callers :
            (pc[c] = "caller_tx" /\ result'[c] = "committed") =>
                \A p \in Pids :
                    /\ Len(stocks'[p]) = Len(stocks[p])
                    /\ \A k \in DOMAIN stocks[p] :
                          stocks'[p][k] = stocks[p][k]
                              + SignedSum(call[c].order_items, call[c].operation,
                                          p, Len(call[c].order_items))]_vars
    /\ [](BothEnded("mysql", "committed") =>
            \A p \in Pids : \A k \in DOMAIN stocks[p] :
                stocks[p][k] = hist[2].pre.stocks[p][k]
                                 + Share(hist[1], p) + Share(hist[2], p))

C11_Witness ==
    /\ BothEnded("mysql", "committed")
    /\ hist[1].pre.stocks = hist[2].pre.stocks
    /\ hist[1].operation = "+" /\ hist[2].operation = "+"
    /\ \E p \in Pids :
          /\ stocks[p] # <<>>
          /\ Share(hist[1], p) # 0 /\ Share(hist[2], p) # 0

\* C12 as stated: once two concurrent update_stock_redis calls that adjust the
\* same product have both completed, the cache entry's quantity is its initial
\* quantity (the rehydrated one when the cache was empty) plus the signed sum
\* of both deltas.
C12_NoLostCacheUpdate ==
    (BothEnded("redis", "returned")
        /\ hist[2].items[1].product_id = PairPid) =>
            QuantityRead(cache[PairPid]) =
                PairBase + Share(hist[1], PairPid) + Share(hist[2], PairPid)

\* C13: update_stock_redis with an empty item sequence does nothing: its one
\* step returns None, it goes neither to the scan's rehydration nor to the
\* product query, it opens no session, it leaves the cache and the store as
\* they are, also when the cache is empty, and it raises nothing.
C13_EmptyItemsNoOp ==
    /\ [][\A c \in Callers :
            (pc[c] = "usr_check" /\ call[c].order_items = <<>>
                /\ pc'[c] # pc[c]) =>
                    /\ pc'[c] = "idle" /\ result'[c] = "None"
                    /\ session'[c] = session[c]
                    /\ cache' = cache /\ stocks' = stocks
                    /\ tx' = tx /\ lock' = lock]_vars
    /\ []((Ended /\ Last.kind = "redis" /\ Last.n = 0) =>
            /\ Last.outcome = "returned" /\ Last.failed = "none"
            /\ cache = Last.pre.cache /\ stocks = Last.pre.stocks)

C13_Witness ==
    /\ Ended /\ Last.kind = "redis" /\ Last.n = 0
    /\ Last.outcome = "returned"
    /\ session[Last.caller] = "none"
    /\ \A p \in Pids : cache[p] = NoEntry
    /\ \E p \in Pids : stocks[p] # <<>> /\ p \in DOMAIN products

\* C14: set_stock_for_product, update_stock_redis and the rehydration it calls
\* leave no session open: when such a call has returned or raised its session
\* is closed (or was never opened), holds no uncommitted row and no row lock,
\* and the rehydration's session is closed when update_stock_redis goes on.
C14_SessionsReleased ==
    /\ (Ended /\ Last.kind \in {"set", "redis"}) =>
          /\ session[Last.caller] \in {"none", "closed"}
          /\ Last.kind = "set" => session[Last.caller] = "closed"
          /\ tx[Last.caller] = NoTx
          /\ \A p \in Pids : lock[p] # Last.caller
    /\ \A c \in Callers :
          pc[c] = "usr_query" => /\ session[c] # "open"
                                 /\ tx[c] = NoTx

C14_Witness ==
    /\ Ended /\ Last.kind = "redis" /\ Last.outcome = "raised"
    /\ Last.failed = "usr_item" /\ ColdBefore
    /\ session[Last.caller] = "closed"

\* the items of the running call of c that reference product p
ItemsFor(c, p) ==
    {k \in DOMAIN call[c].order_items : call[c].order_items[k].product_id = p}

\* the quantity the running call of c found for p: the entry's quantity, the
\* rehydrated quantity when the cache was empty
BaseQuantity(c, p) ==
    IF \A o \in Pids : hist[1].pre.cache[o] = NoEntry
    THEN IF p \in DOMAIN products /\ stocks[p] # <<>> THEN stocks[p][1] ELSE 0
    ELSE QuantityRead(hist[1].pre.cache[p])

C16_RehydratesOnlyEmptyCache ==
    /\ [][\A c \in Callers :
            (pc[c] = "usr_check" /\ call[c].order_items # <<>>
                /\ pc'[c] # pc[c]) =>
                    IF \A p \in Pids : cache[p] = NoEntry
                    THEN pc'[c] = "pop_select"
                    ELSE pc'[c] = "usr_query"]_vars
    /\ [](\A c \in Callers :
            pc[c] \in {"pop_select", "pop_execute"} =>
                \A p \in Pids : hist[1].pre.cache[p] = NoEntry)
    /\ []((AdjustReturned /\ ~ColdBefore
                /\ Last.pre.cache[Last.items[1].product_id] = NoEntry) =>
            LET p == Last.items[1].product_id
            IN  /\ "quantity" \in DOMAIN cache[p]
                /\ PyInt(cache[p]["quantity"]) =
                      Signed(Last.operation, Last.items[1].quantity))

C16_Witness ==
    /\ AdjustReturned /\ ~ColdBefore
    /\ Last.pre.cache[Last.items[1].product_id] = NoEntry
    /\ Last.items[1].product_id \in DOMAIN products
    /\ stocks[Last.items[1].product_id] # <<>>
    /\ Last.operation = "-"

\* the last two calls were set_stock_for_product for one product id and both
\* returned
BothSet ==
    /\ AllIdle /\ Len(hist) = 2
    /\ \A k \in 1..2 : hist[k].kind = "set" /\ hist[k].outcome = "returned"
    /\ hist[1].product_id = hist[2].product_id

BothAdded == \A c \in Callers : result[c] = "rows added"

\* C17: two set_stock_for_product calls for one product id can both find zero
\* rows updated and both insert; when both report "rows added" the calls
\* overlapped on an id that had no StockRecord and the store, which rejects
\* neither insert, holds two records for the id, one with each quantity.
C17_BothInsert ==
    (BothSet /\ BothAdded) =>
        LET p == hist[1].product_id
        IN  /\ hist[1].caller # hist[2].caller
            /\ hist[1].pre.stocks[p] = <<>> /\ hist[2].pre.stocks[p] = <<>>
            /\ Len(stocks[p]) = 2
            /\ {stocks[p][k] : k \in 1..2} = {hist[1].quantity, hist[2].quantity}

C17_Witness ==
    /\ BothSet /\ BothAdded
    /\ Len(stocks[hist[1].product_id]) = 2
    /\ hist[1].quantity # hist[2].quantity

\* C18 as stated: once two concurrent set_stock_for_product calls for one
\* product, with different quantities, have both returned, the cache entry's
\* quantity is the committed quantity of the product's StockRecord.
C18_CacheFollowsLastCommit ==
    (BothSet /\ hist[1].quantity # hist[2].quantity
        /\ Len(stocks[hist[1].product_id]) = 1) =>
            LET p == hist[1].product_id
            IN  /\ "quantity" \in DOMAIN cache[p]
                /\ PyInt(cache[p]["quantity"]) = stocks[p][1]

\* the store-of-record path, committed, then the cache path, with the same
\* single item and operation, by one caller with no other call in between
StoreThenCache ==
    /\ AllIdle /\ Len(hist) = 2
    /\ hist[2].kind = "mysql" /\ hist[2].outcome = "committed"
    /\ hist[1].kind = "redis" /\ hist[1].outcome = "returned"
    /\ hist[1].n = 1 /\ hist[2].n = 1
    /\ hist[1].items = hist[2].items
    /\ hist[1].operation = hist[2].operation
    /\ hist[1].caller = hist[2].caller

\* every cache entry that existed before the pair had its record's quantity
ConsistentBeforePair ==
    \A p \in Pids :
        BeforePair.cache[p] # NoEntry =>
            /\ BeforePair.stocks[p] # <<>>
            /\ QuantityRead(BeforePair.cache[p]) = BeforePair.stocks[p][1]

\* C19 as stated: from a cache that is empty or agrees with the store, after
\* update_stock_mysql and its commit and then update_stock_redis with the same
\* item and operation, the cache quantity of the adjusted product, which
\* exists and has a StockRecord, equals the StockRecord's quantity.
C19_CacheAgreesAfterBothPaths ==
    (StoreThenCache /\ ConsistentBeforePair
        /\ PairPid \in DOMAIN products
        /\ BeforePair.stocks[PairPid] # <<>>) =>
            QuantityRead(cache[PairPid]) = stocks[PairPid][1]

\* C20 as stated: update_stock_mysql reads every item by the item's own shape,
\* so no call fails on extracting an item's product_id and quantity, also when
\* the sequence mixes object-shaped and mapping-shaped items: a call fails
\* only when one of its statements does.
C20_EveryItemReadByItsShape ==
    \A c \in Callers :
        (call[c].kind = "mysql" /\ pc[c] = "caller_failed") =>
            err[c] # "usm_access"
====
